---------------------------- MODULE Spec2Model ----------------------------
(***************************************************************************)
(* Model of the editor-side asynchronous asset compiler of LumixEngine     *)
(* (src/src/editor/asset_compiler.cpp).                                    *)
(*                                                                         *)
(* Three threads act on one AssetCompilerImpl:                             *)
(*   main    - onBeforeLoad (load hook), update, addPlugin, ~AssetCompiler *)
(*   watcher - onFileChanged (file system watcher callback)                *)
(*   worker  - AssetCompilerTask::task                                     *)
(* Every acquisition of a spin lock is a step of its own; the body of a    *)
(* critical section together with the release of the lock is one step.     *)
(*                                                                         *)
(* The entity store of src/src/universe/universe.h is modelled beside it,  *)
(* under a specification of its own (SpecUniverse).                        *)
(***************************************************************************)
EXTENDS Integers, Sequences, FiniteSets, TLC

(***************************************************************************)
(* Bounds of the exploration.                                              *)
(***************************************************************************)
\* requests that may be in flight (enqueued and not yet delivered by update)
MaxInFlight == 2
\* time stamps of the files read by onBeforeLoad range over 0..MaxTime
MaxTime == 1
\* the position and rotation arrays of the universe grow to MaxEntities
MaxEntities == 5

(***************************************************************************)
(* Strings are sequences of one-character strings.                         *)
(***************************************************************************)
Alphabet == <<"a","b","c","d","e","f","g","h","i","j","k","l","m",
              "n","o","p","q","r","s","t","u","v","w","x","y","z">>

Ascii(c) == CASE c = "." -> 46
              [] c = "/" -> 47
              [] OTHER -> 96 + (CHOOSE i \in 1..26 : Alphabet[i] = c)

\* the extension buffer of onFileChanged and compile: char ext[16]
ExtBufferSize == 16

ExtT == <<"t">>
Ext16 == <<"a","b","c","d","e","f","g","h","i","j","k","l","m","n","o","p">>
DotLumix == <<".","l","u","m","i","x">>

PathTex == <<"a",".">> \o ExtT
PathOut == DotLumix \o <<"/">> \o PathTex
PathLong == <<"b",".">> \o Ext16
NoPath == << >>

\* Path::isValid
isValid(path) == Len(path) > 0

\* startsWith(str, prefix)
startsWith(str, prefix) ==
    /\ Len(str) >= Len(prefix)
    /\ SubSeq(str, 1, Len(prefix)) = prefix

\* copyString(dest, max_size, src): at most max_size - 1 characters and a
\* terminating zero fit in dest
copyString(max_size, src) ==
    IF Len(src) > max_size - 1 THEN SubSeq(src, 1, max_size - 1) ELSE src

\* PathUtils::getExtension(ext, max_length, src): what follows the last '.'
\* of src, copied into a buffer of max_length characters; empty without '.'
getExtension(max_length, src) ==
    LET dots == {i \in 1..Len(src) : src[i] = "."}
    IN  IF dots = {} THEN << >>
        ELSE LET last == CHOOSE i \in dots : \A j \in dots : j <= i
             IN  copyString(max_length, SubSeq(src, last + 1, Len(src)))

(***************************************************************************)
(* crc32 of a string: the reflected CRC-32 (polynomial 0xEDB88320), on     *)
(* 32-bit words kept as <<high 16 bits, low 16 bits>>.                      *)
(***************************************************************************)
\* functions, so that TLC evaluates every argument once
BitXor[a \in Nat, b \in Nat] ==
    IF a = 0 THEN b
    ELSE IF b = 0 THEN a
    ELSE ((a + b) % 2) + 2 * BitXor[a \div 2, b \div 2]

WordXor(v, w) == <<BitXor[v[1], w[1]], BitXor[v[2], w[2]]>>

ShiftRight1(w) == <<w[1] \div 2, (w[2] \div 2) + (w[1] % 2) * 32768>>

CrcPoly == <<60856, 33568>>
CrcOnes == <<65535, 65535>>

CrcBits[w \in Nat \X Nat, n \in Nat] ==
    IF n = 0 THEN w
    ELSE CrcBits[IF w[2] % 2 = 1 THEN WordXor(ShiftRight1(w), CrcPoly)
                                 ELSE ShiftRight1(w), n - 1]

CrcBytes[w \in Nat \X Nat, str \in Seq(STRING)] ==
    IF str = << >> THEN w
    ELSE CrcBytes[CrcBits[WordXor(w, <<0, Ascii(Head(str))>>), 8], Tail(str)]

crc32(str) == WordXor(CrcBytes[CrcOnes, str], CrcOnes)


(***************************************************************************)
(* The objects the compiler is used with.                                  *)
(***************************************************************************)
Resources == {"r1", "r2"}
NullRes == "nullptr"
\* Resource::getPath
getPath(res) == IF res = "r1" THEN PathTex ELSE PathLong

Plugins == {"p1", "p2"}
NoPlugin == "none"

\* the paths the file system watcher reports
WatchedPaths == {PathTex, PathOut, PathLong}

\* a pointer to a string is <<string>>, the null pointer is << >>
NullPtr == << >>
Ptr(str) == <<str>>
\* the null-terminated extension lists addPlugin is called with
ExtLists == { <<Ptr(ExtT), NullPtr>>,
              <<Ptr(Ext16), Ptr(ExtT), NullPtr>> }

\* the facts onBeforeLoad reads from the file system
FsFacts == [src_exists : BOOLEAN, dst_exists : BOOLEAN,
            src_time : 0..MaxTime, dst_time : 0..MaxTime,
            meta_time : 0..MaxTime]
NoFacts == [src_exists |-> FALSE, dst_exists |-> FALSE,
            src_time |-> 0, dst_time |-> 0, meta_time |-> 0]

\* identities of the requests in flight (bookkeeping, not program state)
Ids == 1..MaxInFlight

(***************************************************************************)
(* CompileEntry { Path path; Resource* resource; }.  id names the request  *)
(* the entry was made for and done records that compile returned for it;   *)
(* both are bookkeeping the program does not read.                         *)
(***************************************************************************)
CompileEntry(path, resource, id) ==
    [path |-> path, resource |-> resource, id |-> id, done |-> FALSE]
\* CompileEntry{} and the entry the destructor emplaces
EmptyEntry == CompileEntry(NoPath, NullRes, 0)

\* Array::back and Array::pop
back(array) == array[Len(array)]
pop(array) == SubSeq(array, 1, Len(array) - 1)

\* the call that enqueued a request: onBeforeLoad(resource) has kind "load",
\* onFileChanged(path) has kind "file"
Origin(kind, resource, path) ==
    [kind |-> kind, resource |-> resource, path |-> path]
NoOrigin == Origin("none", NullRes, NoPath)
\* a call of update(): <<"continueLoad", resource>> or <<"reload", path>>
NoCall == <<"none">>

VARIABLES
    m_to_compile,        \* Array<CompileEntry>
    m_compiled,          \* Array<CompileEntry>
    m_plugins,           \* HashMap<u32, IPlugin*>
    m_semaphore,         \* count of MT::Semaphore
    m_to_compile_mutex,  \* owner of the spin mutex, or "free"
    m_compiled_mutex,
    m_plugin_mutex,
    m_finished,          \* AssetCompilerTask::m_finished
    load_hook,           \* the hook is set in the resource manager
    watcher_alive,       \* m_watcher exists
    res_state,           \* per resource: "idle" or "deferred" by the hook
    registered,          \* extensions passed to addPlugin so far
    live,                \* ids of the requests in flight
    task_pc, task_e, cmp_plugin, cmp_ret, plugin_caller,
    fc_pc, fc_path,
    main_pc, bl_res, bl_ret, fs_facts, upd_e,
    ap_plugin, ap_exts, ap_i,
    dtor_size, dtor_raw,
    m_positions,         \* Universe: PODArray<Vec3>
    m_rotations,         \* Universe: PODArray<Quat>
    m_free_slots,        \* Universe: PODArray<int>
    entities,            \* per index, the entities handed out and not destroyed
    ce_ret,              \* index of the entity the last createEntity returned
    origin,              \* per request id, the call that enqueued the request
    rm_call              \* the call update() has just made

shared == <<m_to_compile, m_compiled, m_plugins, m_semaphore,
            m_to_compile_mutex, m_compiled_mutex, m_plugin_mutex,
            m_finished, load_hook, watcher_alive, res_state, registered, live>>
workerVars == <<task_pc, task_e, cmp_plugin, cmp_ret, plugin_caller>>
watcherVars == <<fc_pc, fc_path>>
blVars == <<bl_res, bl_ret, fs_facts>>
apVars == <<ap_plugin, ap_exts, ap_i>>
dtorVars == <<dtor_size, dtor_raw>>
mainVars == <<main_pc, blVars, upd_e, apVars, dtorVars>>
universeVars == <<m_positions, m_rotations, m_free_slots, entities, ce_ret>>
traceVars == <<origin, rm_call>>
vars == <<shared, workerVars, watcherVars, mainVars, universeVars, traceVars>>

\* the state after AssetCompilerImpl::AssetCompilerImpl: watcher created,
\* task created, load hook set, both arrays empty, the three mutexes free and
\* the semaphore at 0
Construct ==
    /\ m_to_compile = << >>
    /\ m_compiled = << >>
    /\ m_semaphore = 0
    /\ m_to_compile_mutex = "free"
    /\ m_compiled_mutex = "free"
    /\ m_plugin_mutex = "free"
    /\ m_finished = FALSE
    /\ load_hook = TRUE
    /\ watcher_alive = TRUE
    /\ res_state = [r \in Resources |-> "idle"]
    /\ live = {}
    /\ task_pc = "loop" /\ task_e = EmptyEntry
    /\ cmp_plugin = NoPlugin /\ cmp_ret = "none" /\ plugin_caller = "none"
    /\ fc_pc = "idle" /\ fc_path = NoPath
    /\ main_pc = "idle" /\ bl_res = NullRes /\ bl_ret = "none"
    /\ upd_e = EmptyEntry
    /\ ap_plugin = NoPlugin /\ ap_exts = << >> /\ ap_i = 0
    /\ dtor_size = 0 /\ dtor_raw = << >>
    /\ origin = [id \in Ids \cup {0} |-> NoOrigin]
    /\ rm_call = NoCall

\* no plugin has been added yet
NoPlugins == m_plugins = << >> /\ registered = {}

\* entities may have the indices 0..MaxEntities-1
Indices == 0..(MaxEntities - 1)

\* the state after Universe::Universe: no entity, the three arrays empty
UniverseConstruct ==
    /\ m_positions = << >>
    /\ m_rotations = << >>
    /\ m_free_slots = << >>
    /\ entities = [i \in Indices |-> 0]
    /\ ce_ret = -1

Init == Construct /\ NoPlugins /\ fs_facts = NoFacts /\ UniverseConstruct

(***************************************************************************)
(* Bound of the exploration: a producer is called only while one of the    *)
(* MaxInFlight request ids is free for the entry it may enqueue.           *)
(***************************************************************************)
Reserved ==
    (IF fc_pc # "idle" THEN 1 ELSE 0)
    + (IF main_pc \in {"bl_lock", "bl_emplace"} THEN 1 ELSE 0)
CanEnqueue == Cardinality(live) + Reserved < MaxInFlight
NewId == CHOOSE i \in Ids \ live : \A j \in Ids \ live : i <= j

(***************************************************************************)
(* MT::Semaphore and MT::SpinLock                                          *)
(***************************************************************************)
signal(count) == count + 1

(***************************************************************************)
(* AssetCompilerTask::task, with AssetCompilerImpl::compile inlined at its *)
(* two call sites.                                                         *)
(***************************************************************************)
\* the path the worker passes to compile for entry e
CompileSrc(e) == IF e.resource # NullRes THEN getPath(e.resource) ELSE e.path

\* while (!m_finished)
task_loop ==
    /\ task_pc = "loop"
    /\ task_pc' = IF m_finished THEN "returned" ELSE "wait"
    /\ UNCHANGED <<shared, task_e, cmp_plugin, cmp_ret, plugin_caller,
                   watcherVars, mainVars>>
    /\ UNCHANGED universeVars
    /\ UNCHANGED traceVars

\* m_compiler.m_semaphore.wait()
task_wait ==
    /\ task_pc = "wait"
    /\ m_semaphore > 0
    /\ m_semaphore' = m_semaphore - 1
    /\ task_pc' = "lock"
    /\ UNCHANGED <<m_to_compile, m_compiled, m_plugins, m_to_compile_mutex,
                   m_compiled_mutex, m_plugin_mutex, m_finished, load_hook,
                   watcher_alive, res_state, registered, live,
                   task_e, cmp_plugin, cmp_ret, plugin_caller,
                   watcherVars, mainVars>>
    /\ UNCHANGED universeVars
    /\ UNCHANGED traceVars

\* MT::SpinLock lock(m_compiler.m_to_compile_mutex)
task_lock ==
    /\ task_pc = "lock"
    /\ m_to_compile_mutex = "free"
    /\ m_to_compile_mutex' = "worker"
    /\ task_pc' = "take"
    /\ UNCHANGED <<m_to_compile, m_compiled, m_plugins, m_semaphore,
                   m_compiled_mutex, m_plugin_mutex, m_finished, load_hook,
                   watcher_alive, res_state, registered, live,
                   task_e, cmp_plugin, cmp_ret, plugin_caller,
                   watcherVars, mainVars>>
    /\ UNCHANGED universeVars
    /\ UNCHANGED traceVars

\* the entry the worker takes out of the array
TakenEntry(array) == back(array)
\* the array after the worker took its entry
AfterTake(array) == pop(array)
\* (variant: the lock is kept until the end of the loop body)
LockAfterTake_Kept == "worker"
\* the owner of m_to_compile_mutex once the lambda has returned
LockAfterTake == "free"
\* (variant: the entry is pushed to m_compiled without being compiled)
AfterTakePc_NoCompile(e) ==
    IF e.resource # NullRes \/ isValid(e.path) THEN "push_lock" ELSE "loop"
\* where the worker goes with the entry it took: to compile when the entry
\* has a resource or a valid path, back to the loop test otherwise
AfterTakePc(e) ==
    IF e.resource # NullRes \/ isValid(e.path) THEN "cmp_lock" ELSE "loop"

\* e = m_to_compile.back(); m_to_compile.pop(); the lock is released; then
\* the branch on e.resource and e.path.isValid().  back() of an empty array
\* is undefined: the worker is then lost ("undefined").
task_take ==
    /\ task_pc = "take"
    /\ IF m_to_compile = << >>
       THEN /\ task_pc' = "undefined"
            /\ UNCHANGED <<m_to_compile, task_e>>
       ELSE /\ task_e' = TakenEntry(m_to_compile)
            /\ m_to_compile' = AfterTake(m_to_compile)
            /\ task_pc' = AfterTakePc(task_e')
    /\ m_to_compile_mutex' = LockAfterTake
    /\ UNCHANGED <<m_compiled, m_plugins, m_semaphore,
                   m_compiled_mutex, m_plugin_mutex, m_finished, load_hook,
                   watcher_alive, res_state, registered, live,
                   cmp_plugin, cmp_ret, plugin_caller,
                   watcherVars, mainVars>>
    /\ UNCHANGED universeVars
    /\ UNCHANGED traceVars

\* (variant: the entry is pushed only when compile returned true)
AfterCompilePc_OnlyOnSuccess(ret) ==
    IF ret = "true" THEN "push_lock" ELSE "loop"
\* where the worker goes when compile has returned ret: to the push, the
\* result is not looked at
AfterCompilePc(ret) == "push_lock"

\* compile: MT::SpinLock lock(m_plugin_mutex)
compile_lock ==
    /\ task_pc = "cmp_lock"
    /\ m_plugin_mutex = "free"
    /\ m_plugin_mutex' = "worker"
    /\ task_pc' = "cmp_find"
    /\ UNCHANGED <<m_to_compile, m_compiled, m_plugins, m_semaphore,
                   m_to_compile_mutex, m_compiled_mutex, m_finished, load_hook,
                   watcher_alive, res_state, registered, live,
                   task_e, cmp_plugin, cmp_ret, plugin_caller,
                   watcherVars, mainVars>>
    /\ UNCHANGED universeVars
    /\ UNCHANGED traceVars

\* the key compile and onFileChanged look a path up with
\* (tabulated once for the paths of the model)
PluginKeyOf == [path \in WatchedPaths \cup {getPath(r) : r \in Resources} |->
                  crc32(getExtension(ExtBufferSize, path))]
PluginKey(path) == PluginKeyOf[path]

\* compile: iter = m_plugins.find(hash); not valid: return false; else
\* plugin = iter.value(), the lock is released and plugin->compile is entered
compile_find ==
    /\ task_pc = "cmp_find"
    /\ LET hash == PluginKey(CompileSrc(task_e))
       IN  IF hash \notin DOMAIN m_plugins
           THEN /\ cmp_ret' = "false"
                /\ task_e' = [task_e EXCEPT !.done = TRUE]
                /\ task_pc' = AfterCompilePc(cmp_ret')
                /\ UNCHANGED <<cmp_plugin, plugin_caller>>
           ELSE /\ cmp_plugin' = m_plugins[hash]
                /\ plugin_caller' = "worker"
                /\ task_pc' = "plugin"
                /\ UNCHANGED <<cmp_ret, task_e>>
    /\ m_plugin_mutex' = "free"
    /\ UNCHANGED <<m_to_compile, m_compiled, m_plugins, m_semaphore,
                   m_to_compile_mutex, m_compiled_mutex, m_finished, load_hook,
                   watcher_alive, res_state, registered, live,
                   watcherVars, mainVars>>
    /\ UNCHANGED universeVars
    /\ UNCHANGED traceVars

\* return plugin->compile(src): the plugin returns true or false
compile_plugin ==
    /\ task_pc = "plugin"
    /\ \E ok \in {"true", "false"} : cmp_ret' = ok
    /\ cmp_plugin' = NoPlugin
    /\ plugin_caller' = "none"
    /\ task_e' = [task_e EXCEPT !.done = TRUE]
    /\ task_pc' = AfterCompilePc(cmp_ret')
    /\ UNCHANGED <<shared, watcherVars, mainVars>>
    /\ UNCHANGED universeVars
    /\ UNCHANGED traceVars

\* compile has returned (its result is dropped);
\* MT::SpinLock lock(m_compiler.m_compiled_mutex)
task_push_lock ==
    /\ task_pc = "push_lock"
    /\ m_compiled_mutex = "free"
    /\ m_compiled_mutex' = "worker"
    /\ cmp_ret' = "none"
    /\ task_pc' = "push"
    /\ UNCHANGED <<m_to_compile, m_compiled, m_plugins, m_semaphore,
                   m_to_compile_mutex, m_plugin_mutex, m_finished, load_hook,
                   watcher_alive, res_state, registered, live,
                   task_e, cmp_plugin, plugin_caller, watcherVars, mainVars>>
    /\ UNCHANGED universeVars
    /\ UNCHANGED traceVars

\* m_compiler.m_compiled.push(e); the lock is released
task_push ==
    /\ task_pc = "push"
    /\ m_compiled' = Append(m_compiled, task_e)
    /\ m_compiled_mutex' = "free"
    /\ task_e' = EmptyEntry
    /\ task_pc' = "loop"
    /\ UNCHANGED <<m_to_compile, m_plugins, m_semaphore,
                   m_to_compile_mutex, m_plugin_mutex, m_finished, load_hook,
                   watcher_alive, res_state, registered, live,
                   cmp_plugin, cmp_ret, plugin_caller, watcherVars, mainVars>>
    /\ UNCHANGED universeVars
    /\ UNCHANGED traceVars


(***************************************************************************)
(* AssetCompilerImpl::onFileChanged, run by the file system watcher.       *)
(***************************************************************************)
\* the watcher calls back with a path
onFileChanged_call ==
    /\ fc_pc = "idle"
    /\ watcher_alive
    /\ CanEnqueue
    /\ \E path \in WatchedPaths : fc_path' = path
    /\ fc_pc' = "fc_check"
    /\ UNCHANGED <<shared, workerVars, mainVars>>
    /\ UNCHANGED universeVars
    /\ UNCHANGED traceVars

\* if (startsWith(path, ".lumix")) return; getExtension
onFileChanged_check ==
    /\ fc_pc = "fc_check"
    /\ IF startsWith(fc_path, DotLumix)
       THEN fc_pc' = "idle" /\ fc_path' = NoPath
       ELSE fc_pc' = "fc_plugin_lock" /\ UNCHANGED fc_path
    /\ UNCHANGED <<shared, workerVars, mainVars>>
    /\ UNCHANGED universeVars
    /\ UNCHANGED traceVars

\* MT::SpinLock lock(m_plugin_mutex)
onFileChanged_plugin_lock ==
    /\ fc_pc = "fc_plugin_lock"
    /\ m_plugin_mutex = "free"
    /\ m_plugin_mutex' = "watcher"
    /\ fc_pc' = "fc_find"
    /\ UNCHANGED <<m_to_compile, m_compiled, m_plugins, m_semaphore,
                   m_to_compile_mutex, m_compiled_mutex, m_finished, load_hook,
                   watcher_alive, res_state, registered, live,
                   fc_path, workerVars, mainVars>>
    /\ UNCHANGED universeVars
    /\ UNCHANGED traceVars

\* (variant: the lock on m_plugin_mutex lasts to the end of the function)
onFileChanged_find_KeepsLock ==
    /\ fc_pc = "fc_find"
    /\ IF PluginKey(fc_path) \notin DOMAIN m_plugins
       THEN fc_pc' = "idle" /\ fc_path' = NoPath
       ELSE fc_pc' = "fc_lock" /\ UNCHANGED fc_path
    /\ m_plugin_mutex' = IF fc_pc' = "idle" THEN "free" ELSE "watcher"
    /\ UNCHANGED <<m_to_compile, m_compiled, m_plugins, m_semaphore,
                   m_to_compile_mutex, m_compiled_mutex, m_finished, load_hook,
                   watcher_alive, res_state, registered, live,
                   workerVars, mainVars>>
    /\ UNCHANGED universeVars
    /\ UNCHANGED traceVars

\* iter = m_plugins.find(crc32(ext)); if (!iter.isValid()) return;
\* the lock is released
onFileChanged_find ==
    /\ fc_pc = "fc_find"
    /\ IF PluginKey(fc_path) \notin DOMAIN m_plugins
       THEN fc_pc' = "idle" /\ fc_path' = NoPath
       ELSE fc_pc' = "fc_lock" /\ UNCHANGED fc_path
    /\ m_plugin_mutex' = "free"
    /\ UNCHANGED <<m_to_compile, m_compiled, m_plugins, m_semaphore,
                   m_to_compile_mutex, m_compiled_mutex, m_finished, load_hook,
                   watcher_alive, res_state, registered, live,
                   workerVars, mainVars>>
    /\ UNCHANGED universeVars
    /\ UNCHANGED traceVars

\* MT::SpinLock lock(m_to_compile_mutex)
onFileChanged_lock ==
    /\ fc_pc = "fc_lock"
    /\ m_to_compile_mutex = "free"
    /\ m_to_compile_mutex' = "watcher"
    /\ fc_pc' = "fc_emplace"
    /\ UNCHANGED <<m_to_compile, m_compiled, m_plugins, m_semaphore,
                   m_compiled_mutex, m_plugin_mutex, m_finished, load_hook,
                   watcher_alive, res_state, registered, live,
                   fc_path, workerVars, mainVars>>
    /\ UNCHANGED universeVars
    /\ UNCHANGED traceVars

\* the memory of m_to_compile as the destructor's unlocked emplace finds it:
\* while the destructor is between reading the size and writing the slot,
\* a push by another thread is remembered at its index
RawAfterPush(e) ==
    IF main_pc = "dtor_write"
    THEN [i \in 1..(IF Len(m_to_compile) + 1 > Len(dtor_raw)
                    THEN Len(m_to_compile) + 1 ELSE Len(dtor_raw)) |->
            IF i = Len(m_to_compile) + 1 THEN e ELSE dtor_raw[i]]
    ELSE dtor_raw

\* (variant: a queue of capacity 1 that drops the entry when it is full)
onFileChanged_emplace_Bounded ==
    /\ fc_pc = "fc_emplace"
    /\ IF Len(m_to_compile) >= 1
       THEN UNCHANGED <<m_to_compile, dtor_raw, live, m_semaphore, origin>>
       ELSE LET e == CompileEntry(fc_path, NullRes, NewId)
            IN  /\ m_to_compile' = Append(m_to_compile, e)
                /\ dtor_raw' = RawAfterPush(e)
                /\ live' = live \cup {e.id}
                /\ origin' = [origin EXCEPT
                                 ![e.id] = Origin("file", NullRes, fc_path)]
                /\ m_semaphore' = signal(m_semaphore)
    /\ m_to_compile_mutex' = "free"
    /\ fc_pc' = "idle"
    /\ fc_path' = NoPath
    /\ UNCHANGED <<m_compiled, m_plugins, m_compiled_mutex, m_plugin_mutex,
                   m_finished, load_hook, watcher_alive, res_state, registered,
                   workerVars, main_pc, blVars, upd_e, apVars, dtor_size>>
    /\ UNCHANGED <<universeVars, rm_call>>

\* e = m_to_compile.emplace(); e.resource = nullptr; e.path = path;
\* m_semaphore.signal(); the lock is released
onFileChanged_emplace ==
    /\ fc_pc = "fc_emplace"
    /\ LET e == CompileEntry(fc_path, NullRes, NewId)
       IN  /\ m_to_compile' = Append(m_to_compile, e)
           /\ dtor_raw' = RawAfterPush(e)
           /\ live' = live \cup {e.id}
           /\ origin' = [origin EXCEPT
                            ![e.id] = Origin("file", NullRes, fc_path)]
    /\ m_semaphore' = signal(m_semaphore)
    /\ m_to_compile_mutex' = "free"
    /\ fc_pc' = "idle"
    /\ fc_path' = NoPath
    /\ UNCHANGED <<m_compiled, m_plugins, m_compiled_mutex, m_plugin_mutex,
                   m_finished, load_hook, watcher_alive, res_state, registered,
                   workerVars, main_pc, blVars, upd_e, apVars, dtor_size>>
    /\ UNCHANGED <<universeVars, rm_call>>


(***************************************************************************)
(* AssetCompilerImpl::onBeforeLoad, called by the resource manager through *)
(* the load hook.                                                          *)
(***************************************************************************)
\* (variant: equal time stamps trigger a compile)
NeedsCompile_OrEqual(f) ==
    IF ~f.src_exists THEN FALSE
    ELSE \/ ~f.dst_exists
         \/ f.dst_time <= f.src_time
         \/ f.dst_time <= f.meta_time

\* the test of lines 168-177 on the facts f read from the file system
NeedsCompile(f) ==
    IF ~f.src_exists THEN FALSE
    ELSE \/ ~f.dst_exists
         \/ f.dst_time < f.src_time
         \/ f.dst_time < f.meta_time

\* the call, up to the return false or to the lock; needs is what the test
\* of lines 168-177 gave
onBeforeLoad_begin(res, needs) ==
    /\ main_pc = "idle"
    /\ load_hook
    /\ res_state[res] = "idle"
    /\ bl_res' = res
    /\ IF needs
       THEN /\ CanEnqueue
            /\ main_pc' = "bl_lock"
            /\ UNCHANGED bl_ret
       ELSE /\ main_pc' = "bl_return"
            /\ bl_ret' = "false"
    /\ UNCHANGED <<shared, workerVars, watcherVars, fs_facts, upd_e,
                   apVars, dtorVars>>
    /\ UNCHANGED universeVars
    /\ UNCHANGED traceVars

\* what the test can give, over all the facts of the file system
NeedsCompileResults == {NeedsCompile(f) : f \in FsFacts}

onBeforeLoad_call ==
    \E res \in Resources, needs \in NeedsCompileResults :
        onBeforeLoad_begin(res, needs)

\* MT::SpinLock lock(m_to_compile_mutex)
onBeforeLoad_lock ==
    /\ main_pc = "bl_lock"
    /\ m_to_compile_mutex = "free"
    /\ m_to_compile_mutex' = "main"
    /\ main_pc' = "bl_emplace"
    /\ UNCHANGED <<m_to_compile, m_compiled, m_plugins, m_semaphore,
                   m_compiled_mutex, m_plugin_mutex, m_finished, load_hook,
                   watcher_alive, res_state, registered, live,
                   workerVars, watcherVars, blVars, upd_e, apVars, dtorVars>>
    /\ UNCHANGED universeVars
    /\ UNCHANGED traceVars

\* (variant: the entry is appended and the semaphore is not signalled)
onBeforeLoad_emplace_NoSignal ==
    /\ main_pc = "bl_emplace"
    /\ LET e == CompileEntry(NoPath, bl_res, NewId)
       IN  /\ m_to_compile' = Append(m_to_compile, e)
           /\ live' = live \cup {e.id}
           /\ origin' = [origin EXCEPT
                            ![e.id] = Origin("load", bl_res, NoPath)]
    /\ UNCHANGED m_semaphore
    /\ m_to_compile_mutex' = "free"
    /\ bl_ret' = "true"
    /\ main_pc' = "bl_return"
    /\ UNCHANGED <<m_compiled, m_plugins, m_compiled_mutex, m_plugin_mutex,
                   m_finished, load_hook, watcher_alive, res_state, registered,
                   workerVars, watcherVars, bl_res, fs_facts, upd_e,
                   apVars, dtorVars>>
    /\ UNCHANGED <<universeVars, rm_call>>

\* e = m_to_compile.emplace(); e.resource = &res; m_semaphore.signal();
\* return true; the lock is released
onBeforeLoad_emplace ==
    /\ main_pc = "bl_emplace"
    /\ LET e == CompileEntry(NoPath, bl_res, NewId)
       IN  /\ m_to_compile' = Append(m_to_compile, e)
           /\ live' = live \cup {e.id}
           /\ origin' = [origin EXCEPT
                            ![e.id] = Origin("load", bl_res, NoPath)]
    /\ m_semaphore' = signal(m_semaphore)
    /\ m_to_compile_mutex' = "free"
    /\ bl_ret' = "true"
    /\ main_pc' = "bl_return"
    /\ UNCHANGED <<m_compiled, m_plugins, m_compiled_mutex, m_plugin_mutex,
                   m_finished, load_hook, watcher_alive, res_state, registered,
                   workerVars, watcherVars, bl_res, fs_facts, upd_e,
                   apVars, dtorVars>>
    /\ UNCHANGED <<universeVars, rm_call>>

\* the resource manager receives the result: true defers the load of the
\* resource until continueLoad, false lets it load at once
onBeforeLoad_return ==
    /\ main_pc = "bl_return"
    /\ res_state' = IF bl_ret = "true"
                    THEN [res_state EXCEPT ![bl_res] = "deferred"]
                    ELSE res_state
    /\ bl_res' = NullRes
    /\ bl_ret' = "none"
    /\ main_pc' = "idle"
    /\ UNCHANGED <<m_to_compile, m_compiled, m_plugins, m_semaphore,
                   m_to_compile_mutex, m_compiled_mutex, m_plugin_mutex,
                   m_finished, load_hook, watcher_alive, registered, live,
                   workerVars, watcherVars, fs_facts, upd_e, apVars, dtorVars>>
    /\ UNCHANGED universeVars
    /\ UNCHANGED traceVars

(***************************************************************************)
(* AssetCompilerImpl::update and popCompiledResource                       *)
(***************************************************************************)
\* update() is called; for (;;)
update_call ==
    /\ main_pc = "idle"
    /\ main_pc' = "upd_lock"
    /\ UNCHANGED <<shared, workerVars, watcherVars, blVars, upd_e,
                   apVars, dtorVars>>
    /\ UNCHANGED universeVars
    /\ UNCHANGED traceVars

\* popCompiledResource: MT::SpinLock lock(m_compiled_mutex)
popCompiledResource_lock ==
    /\ main_pc = "upd_lock"
    /\ m_compiled_mutex = "free"
    /\ m_compiled_mutex' = "main"
    /\ main_pc' = "upd_pop"
    /\ rm_call' = NoCall
    /\ UNCHANGED <<m_to_compile, m_compiled, m_plugins, m_semaphore,
                   m_to_compile_mutex, m_plugin_mutex, m_finished, load_hook,
                   watcher_alive, res_state, registered, live,
                   workerVars, watcherVars, blVars, upd_e, apVars, dtorVars>>
    /\ UNCHANGED <<universeVars, origin>>

\* if (m_compiled.empty()) return CompileEntry{}; e = m_compiled.back();
\* m_compiled.pop(); return e; the lock is released
popCompiledResource ==
    /\ main_pc = "upd_pop"
    /\ IF m_compiled = << >>
       THEN upd_e' = EmptyEntry /\ UNCHANGED m_compiled
       ELSE upd_e' = back(m_compiled) /\ m_compiled' = pop(m_compiled)
    /\ m_compiled_mutex' = "free"
    /\ main_pc' = "upd_deliver"
    /\ UNCHANGED <<m_to_compile, m_plugins, m_semaphore,
                   m_to_compile_mutex, m_plugin_mutex, m_finished, load_hook,
                   watcher_alive, res_state, registered, live,
                   workerVars, watcherVars, blVars, apVars, dtorVars>>
    /\ UNCHANGED universeVars
    /\ UNCHANGED traceVars

\* (variant: update has no branch for entries with a resource)
Delivery_ReloadOnly(e) ==
    IF e.resource # NullRes \/ isValid(e.path) THEN "reload" ELSE "break"

\* what update does with the entry e it popped
Delivery(e) ==
    IF e.resource # NullRes THEN "continueLoad"
    ELSE IF isValid(e.path) THEN "reload"
    ELSE "break"

\* if (e.resource) m_load_hook.continueLoad(*e.resource);
\* else if (e.path.isValid()) resource manager reload(e.path); else break;
update_deliver ==
    /\ main_pc = "upd_deliver"
    /\ res_state' = IF Delivery(upd_e) = "continueLoad"
                    THEN [res_state EXCEPT ![upd_e.resource] = "idle"]
                    ELSE res_state
    /\ live' = IF Delivery(upd_e) = "break" THEN live ELSE live \ {upd_e.id}
    /\ main_pc' = IF Delivery(upd_e) = "break" THEN "idle" ELSE "upd_lock"
    /\ rm_call' = CASE Delivery(upd_e) = "continueLoad" ->
                          <<"continueLoad", upd_e.resource>>
                    [] Delivery(upd_e) = "reload" -> <<"reload", upd_e.path>>
                    [] OTHER -> NoCall
    /\ origin' = [origin EXCEPT ![upd_e.id] = NoOrigin]
    /\ upd_e' = EmptyEntry
    /\ UNCHANGED <<m_to_compile, m_compiled, m_plugins, m_semaphore,
                   m_to_compile_mutex, m_compiled_mutex, m_plugin_mutex,
                   m_finished, load_hook, watcher_alive, registered,
                   workerVars, watcherVars, blVars, apVars, dtorVars>>
    /\ UNCHANGED universeVars

(***************************************************************************)
(* AssetCompilerImpl::addPlugin                                            *)
(***************************************************************************)
\* i = extensions; while (*i)
addPlugin_call ==
    /\ main_pc = "idle"
    /\ \E plugin \in Plugins, extensions \in ExtLists :
          /\ extensions[1] # NullPtr
          /\ ap_plugin' = plugin
          /\ ap_exts' = extensions
    /\ ap_i' = 1
    /\ main_pc' = "ap_lock"
    /\ UNCHANGED <<shared, workerVars, watcherVars, blVars, upd_e, dtorVars>>
    /\ UNCHANGED universeVars
    /\ UNCHANGED traceVars

\* hash = crc32(*i); MT::SpinLock lock(m_plugin_mutex)
addPlugin_lock ==
    /\ main_pc = "ap_lock"
    /\ m_plugin_mutex = "free"
    /\ m_plugin_mutex' = "main"
    /\ main_pc' = "ap_insert"
    /\ UNCHANGED <<m_to_compile, m_compiled, m_plugins, m_semaphore,
                   m_to_compile_mutex, m_compiled_mutex, m_finished, load_hook,
                   watcher_alive, res_state, registered, live,
                   workerVars, watcherVars, blVars, upd_e, apVars, dtorVars>>
    /\ UNCHANGED universeVars
    /\ UNCHANGED traceVars

\* crc32 of the strings addPlugin is called with (tabulated once)
ListedExts == UNION { {l[i][1] : i \in {j \in 1..Len(l) : l[j] # NullPtr}} :
                      l \in ExtLists }
Crc32Of == [ext \in ListedExts |-> crc32(ext)]

\* HashMap::insert(key, value): the maps it may leave; for a key that is
\* already present the map keeps its value or takes the new one
insert(map, key, value) ==
    { [k \in DOMAIN map \cup {key} |-> IF k = key THEN value ELSE map[k]] }
    \cup (IF key \in DOMAIN map THEN {map} ELSE {})

\* m_plugins.insert(hash, &plugin); ++i; the lock is released; while (*i)
addPlugin_insert ==
    /\ main_pc = "ap_insert"
    /\ LET ext == ap_exts[ap_i][1]
       IN  /\ m_plugins' \in insert(m_plugins, Crc32Of[ext], ap_plugin)
           /\ registered' = registered \cup {ext}
    /\ m_plugin_mutex' = "free"
    /\ IF ap_exts[ap_i + 1] = NullPtr
       THEN /\ main_pc' = "idle"
            /\ ap_plugin' = NoPlugin /\ ap_exts' = << >> /\ ap_i' = 0
       ELSE /\ main_pc' = "ap_lock"
            /\ ap_i' = ap_i + 1
            /\ UNCHANGED <<ap_plugin, ap_exts>>
    /\ UNCHANGED <<m_to_compile, m_compiled, m_semaphore,
                   m_to_compile_mutex, m_compiled_mutex, m_finished, load_hook,
                   watcher_alive, res_state, live,
                   workerVars, watcherVars, blVars, upd_e, dtorVars>>
    /\ UNCHANGED universeVars
    /\ UNCHANGED traceVars

(***************************************************************************)
(* AssetCompilerImpl::~AssetCompilerImpl                                   *)
(***************************************************************************)
\* m_task.m_finished = true
destructor_finished ==
    /\ main_pc = "idle"
    /\ m_finished' = TRUE
    /\ main_pc' = "dtor_read"
    /\ UNCHANGED <<m_to_compile, m_compiled, m_plugins, m_semaphore,
                   m_to_compile_mutex, m_compiled_mutex, m_plugin_mutex,
                   load_hook, watcher_alive, res_state, registered, live,
                   workerVars, watcherVars, blVars, upd_e, apVars, dtorVars>>
    /\ UNCHANGED universeVars
    /\ UNCHANGED traceVars

\* m_to_compile.emplace(), first half: the array's size is read, and no
\* lock is taken
destructor_emplace_read ==
    /\ main_pc = "dtor_read"
    /\ dtor_size' = Len(m_to_compile)
    /\ dtor_raw' = m_to_compile
    /\ main_pc' = "dtor_write"
    /\ UNCHANGED <<shared, workerVars, watcherVars, blVars, upd_e, apVars>>
    /\ UNCHANGED universeVars
    /\ UNCHANGED traceVars

\* The arrays an unlocked emplace that read size n can leave, raw being the
\* memory of the array at the write: slot n+1 holds the destructor's entry
\* or, when another thread emplaced into the same slot meanwhile, that
\* thread's entry with its resource set to nullptr; the size becomes n+1,
\* slots that were popped meanwhile come back with what they held.
RacyEmplace(n, raw) ==
    { SubSeq(raw, 1, n) \o <<EmptyEntry>> }
    \cup (IF Len(raw) > n
          THEN { SubSeq(raw, 1, n)
                 \o <<[raw[n + 1] EXCEPT !.resource = NullRes]>> }
          ELSE {})

\* m_to_compile.emplace().resource = nullptr, second half: the slot and
\* the new size are written
destructor_emplace_write ==
    /\ main_pc = "dtor_write"
    /\ m_to_compile' \in RacyEmplace(dtor_size, dtor_raw)
    /\ dtor_size' = 0
    /\ dtor_raw' = << >>
    /\ main_pc' = "dtor_signal"
    /\ UNCHANGED <<m_compiled, m_plugins, m_semaphore,
                   m_to_compile_mutex, m_compiled_mutex, m_plugin_mutex,
                   m_finished, load_hook, watcher_alive, res_state,
                   registered, live,
                   workerVars, watcherVars, blVars, upd_e, apVars>>
    /\ UNCHANGED universeVars
    /\ UNCHANGED traceVars

\* (variant: the destructor does not signal the semaphore)
destructor_signal_Missing ==
    /\ main_pc = "dtor_signal"
    /\ main_pc' = "dtor_destroy"
    /\ UNCHANGED <<shared, workerVars, watcherVars, blVars, upd_e, apVars,
                   dtorVars>>
    /\ UNCHANGED universeVars
    /\ UNCHANGED traceVars

\* m_semaphore.signal()
destructor_signal ==
    /\ main_pc = "dtor_signal"
    /\ m_semaphore' = signal(m_semaphore)
    /\ main_pc' = "dtor_destroy"
    /\ UNCHANGED <<m_to_compile, m_compiled, m_plugins,
                   m_to_compile_mutex, m_compiled_mutex, m_plugin_mutex,
                   m_finished, load_hook, watcher_alive, res_state,
                   registered, live,
                   workerVars, watcherVars, blVars, upd_e, apVars, dtorVars>>
    /\ UNCHANGED universeVars
    /\ UNCHANGED traceVars

\* m_task.destroy() returns once the task has returned; setLoadHook(nullptr)
destructor_destroy_task ==
    /\ main_pc = "dtor_destroy"
    /\ task_pc = "returned"
    /\ load_hook' = FALSE
    /\ main_pc' = "dtor_watcher"
    /\ UNCHANGED <<m_to_compile, m_compiled, m_plugins, m_semaphore,
                   m_to_compile_mutex, m_compiled_mutex, m_plugin_mutex,
                   m_finished, watcher_alive, res_state, registered, live,
                   workerVars, watcherVars, blVars, upd_e, apVars, dtorVars>>
    /\ UNCHANGED universeVars
    /\ UNCHANGED traceVars

\* FileSystemWatcher::destroy(m_watcher): no callback runs afterwards
destructor_destroy_watcher ==
    /\ main_pc = "dtor_watcher"
    /\ fc_pc = "idle"
    /\ watcher_alive' = FALSE
    /\ main_pc' = "destroyed"
    /\ UNCHANGED <<m_to_compile, m_compiled, m_plugins, m_semaphore,
                   m_to_compile_mutex, m_compiled_mutex, m_plugin_mutex,
                   m_finished, load_hook, res_state, registered, live,
                   workerVars, watcherVars, blVars, upd_e, apVars, dtorVars>>
    /\ UNCHANGED universeVars
    /\ UNCHANGED traceVars

(***************************************************************************)
(* The specifications                                                      *)
(***************************************************************************)
Worker ==
    \/ task_loop \/ task_wait \/ task_lock \/ task_take
    \/ compile_lock \/ compile_find \/ compile_plugin
    \/ task_push_lock \/ task_push

\* the steps of the watcher thread inside a callback
WatcherRun ==
    \/ onFileChanged_check \/ onFileChanged_plugin_lock \/ onFileChanged_find
    \/ onFileChanged_lock \/ onFileChanged_emplace

\* the steps of the main thread inside a call
MainRun ==
    \/ onBeforeLoad_lock \/ onBeforeLoad_emplace \/ onBeforeLoad_return
    \/ popCompiledResource_lock \/ popCompiledResource \/ update_deliver
    \/ addPlugin_lock \/ addPlugin_insert
    \/ destructor_emplace_read \/ destructor_emplace_write
    \/ destructor_signal \/ destructor_destroy_task
    \/ destructor_destroy_watcher

Next ==
    \/ task_loop \/ task_wait \/ task_lock \/ task_take
    \/ compile_lock \/ compile_find \/ compile_plugin
    \/ task_push_lock \/ task_push
    \/ onFileChanged_call
    \/ onFileChanged_check \/ onFileChanged_plugin_lock \/ onFileChanged_find
    \/ onFileChanged_lock \/ onFileChanged_emplace
    \/ onBeforeLoad_call
    \/ onBeforeLoad_lock \/ onBeforeLoad_emplace \/ onBeforeLoad_return
    \/ update_call
    \/ popCompiledResource_lock \/ popCompiledResource \/ update_deliver
    \/ addPlugin_call \/ addPlugin_lock \/ addPlugin_insert
    \/ destructor_finished
    \/ destructor_emplace_read \/ destructor_emplace_write
    \/ destructor_signal \/ destructor_destroy_task
    \/ destructor_destroy_watcher

Spec == Init /\ [][Next]_vars


(***************************************************************************)
(* Scheduling: a thread that can take a step infinitely often takes one    *)
(* (a spin lock that is free again and again is eventually acquired), and  *)
(* the editor keeps calling update().  Nothing forces the watcher to       *)
(* report a file, the resource manager to load, or a plugin to be added.   *)
(***************************************************************************)
Fairness ==
    /\ SF_vars(Worker)
    /\ SF_vars(WatcherRun)
    /\ SF_vars(MainRun)
    /\ SF_vars(update_call)

\* the state after construction and addPlugin(p1, {"t", nullptr})
InitPlugged ==
    /\ Construct
    /\ UniverseConstruct
    /\ fs_facts = NoFacts
    /\ \E map \in insert(<< >>, crc32(ExtT), "p1") : m_plugins = map
    /\ registered = {ExtT}

\* every operation but addPlugin
NextPlugged ==
    \/ task_loop \/ task_wait \/ task_lock \/ task_take
    \/ compile_lock \/ compile_find \/ compile_plugin
    \/ task_push_lock \/ task_push
    \/ onFileChanged_call
    \/ onFileChanged_check \/ onFileChanged_plugin_lock \/ onFileChanged_find
    \/ onFileChanged_lock \/ onFileChanged_emplace
    \/ onBeforeLoad_call
    \/ onBeforeLoad_lock \/ onBeforeLoad_emplace \/ onBeforeLoad_return
    \/ update_call
    \/ popCompiledResource_lock \/ popCompiledResource \/ update_deliver
    \/ destructor_finished
    \/ destructor_emplace_read \/ destructor_emplace_write
    \/ destructor_signal \/ destructor_destroy_task
    \/ destructor_destroy_watcher

FairSpec == InitPlugged /\ [][NextPlugged]_vars /\ Fairness

(***************************************************************************)
(* onBeforeLoad alone, on every combination of the facts it reads from the *)
(* file system: fs_facts holds the facts of the load under examination.    *)
(***************************************************************************)
InitLoad ==
    Construct /\ NoPlugins /\ fs_facts \in FsFacts /\ UniverseConstruct

onBeforeLoad_facts ==
    \E res \in Resources : onBeforeLoad_begin(res, NeedsCompile(fs_facts))

NextLoad ==
    \/ onBeforeLoad_facts
    \/ onBeforeLoad_lock \/ onBeforeLoad_emplace \/ onBeforeLoad_return

SpecLoad == InitLoad /\ [][NextLoad]_vars

(***************************************************************************)
(* Universe (src/src/universe/universe.h declares it; the bodies of        *)
(* createEntity and destroyEntity are those of a flat vector with a free   *)
(* list): an entity is an index into m_positions and m_rotations, the      *)
(* indices of destroyed entities wait in m_free_slots.                     *)
(***************************************************************************)
Vec3Zero == <<0, 0, 0>>
QuatIdentity == <<0, 0, 0, 1>>

\* array with element index (counted from 0) set to value
SetAt(array, index, value) == [array EXCEPT ![index + 1] = value]

\* (variant: the free list is ignored and the arrays always grow)
createEntity_AlwaysGrows ==
    /\ Len(m_positions) < MaxEntities
    /\ m_positions' = Append(m_positions, Vec3Zero)
    /\ m_rotations' = Append(m_rotations, QuatIdentity)
    /\ entities' = [entities EXCEPT ![Len(m_positions)] = @ + 1]
    /\ ce_ret' = Len(m_positions)
    /\ UNCHANGED m_free_slots
    /\ UNCHANGED <<shared, workerVars, watcherVars, mainVars, traceVars>>

\* Entity createEntity(): the index on top of the free list when there is
\* one, with its position and rotation reset; otherwise a new element at the
\* end of both arrays
createEntity ==
    /\ IF m_free_slots = << >>
       THEN /\ Len(m_positions) < MaxEntities
            /\ m_positions' = Append(m_positions, Vec3Zero)
            /\ m_rotations' = Append(m_rotations, QuatIdentity)
            /\ entities' = [entities EXCEPT ![Len(m_positions)] = @ + 1]
            /\ ce_ret' = Len(m_positions)
            /\ UNCHANGED m_free_slots
       ELSE LET index == back(m_free_slots)
            IN  /\ m_free_slots' = pop(m_free_slots)
                /\ m_positions' = SetAt(m_positions, index, Vec3Zero)
                /\ m_rotations' = SetAt(m_rotations, index, QuatIdentity)
                /\ entities' = [entities EXCEPT ![index] = @ + 1]
                /\ ce_ret' = index
    /\ UNCHANGED <<shared, workerVars, watcherVars, mainVars, traceVars>>

\* void destroyEntity(const Entity& entity), for an entity that createEntity
\* handed out and that was not destroyed since: its index goes onto the free
\* list, the arrays keep their length
destroyEntity(index) ==
    /\ entities[index] > 0
    /\ m_free_slots' = Append(m_free_slots, index)
    /\ entities' = [entities EXCEPT ![index] = @ - 1]
    /\ UNCHANGED <<m_positions, m_rotations, ce_ret>>
    /\ UNCHANGED <<shared, workerVars, watcherVars, mainVars, traceVars>>

destroyEntity_call == \E index \in Indices : destroyEntity(index)

NextUniverse == createEntity \/ destroyEntity_call

SpecUniverse == Init /\ [][NextUniverse]_vars

(***************************************************************************)
(* Vocabulary of the properties                                            *)
(***************************************************************************)
\* the extension of a path: all that follows its last '.'
Extension(path) == getExtension(Len(path) + 1, path)

\* the destructor has begun
Destroying == m_finished

Max(a, b) == IF a >= b THEN a ELSE b

(***************************************************************************)
(* C1  Liveness of load interception: while the compiler is not destroyed, *)
(* the worker is scheduled, every compile returns and update() keeps being *)
(* called, every resource whose load onBeforeLoad deferred eventually gets *)
(* continueLoad.                                                           *)
(* Refuted: both arrays are popped at the back, so a deferred resource     *)
(* stays at the bottom while later requests keep arriving above it.        *)
(***************************************************************************)
C1_DeferredLoadContinues ==
    \A r \in Resources :
        (res_state[r] = "deferred") ~> (res_state[r] = "idle" \/ Destroying)

(***************************************************************************)
(* C2  Compile before continue: update() calls continueLoad or reload for  *)
(* an entry only after the worker's compile call for that entry returned;  *)
(* an entry is not in m_compiled before or while it is compiled.           *)
(***************************************************************************)
Compiling == task_pc \in {"cmp_lock", "cmp_find", "plugin"}

C2_CompileBeforeContinue ==
    /\ \A i \in 1..Len(m_compiled) : m_compiled[i].done
    /\ \A i \in 1..Len(m_to_compile) : ~m_to_compile[i].done
    /\ (main_pc = "upd_deliver" /\ Delivery(upd_e) # "break") => upd_e.done
    /\ Compiling =>
          /\ ~task_e.done
          /\ \A i \in 1..Len(m_compiled) : m_compiled[i].id # task_e.id
          /\ upd_e.id # task_e.id

C2_Witness ==
    /\ main_pc = "upd_deliver"
    /\ Delivery(upd_e) = "continueLoad"
    /\ Compiling

(***************************************************************************)
(* C3  onBeforeLoad returns true exactly when the source file exists and   *)
(* the compiled file does not exist or is strictly older than the source   *)
(* or than the .meta file; equal time stamps do not trigger a compile.     *)
(***************************************************************************)
C3_LoadIntercepted ==
    main_pc = "bl_return" =>
        /\ bl_ret \in {"true", "false"}
        /\ bl_ret = "true" <=>
              /\ fs_facts.src_exists
              /\ \/ ~fs_facts.dst_exists
                 \/ fs_facts.dst_time
                       < Max(fs_facts.src_time, fs_facts.meta_time)

C3_Witness ==
    /\ main_pc = "bl_return"
    /\ bl_ret = "false"
    /\ fs_facts.src_exists /\ fs_facts.dst_exists
    /\ fs_facts.dst_time = fs_facts.src_time
    /\ fs_facts.dst_time = fs_facts.meta_time
    /\ fs_facts.dst_time > 0

(***************************************************************************)
(* C4  onFileChanged(path) appends exactly one entry (path, nullptr) and   *)
(* signals once iff the path does not start with ".lumix" and a plugin is  *)
(* registered for the path's extension; otherwise m_to_compile, m_compiled *)
(* and the semaphore are unchanged.                                        *)
(* Refuted: the extension is looked up as it fits char ext[16], so a path  *)
(* whose extension has 16 characters is dropped although a plugin is       *)
(* registered for that extension.                                          *)
(***************************************************************************)
C4_FileChangedEnqueues ==
    [][fc_pc' # fc_pc =>
        /\ (fc_pc = "fc_check") =>
              (fc_pc' = "idle" <=> startsWith(fc_path, DotLumix))
        /\ (fc_pc = "fc_find") =>
              (fc_pc' = "fc_lock" <=> Extension(fc_path) \in registered)
        /\ (fc_pc = "fc_lock") => fc_pc' = "fc_emplace"
        /\ (fc_pc = "fc_emplace") =>
              /\ Len(m_to_compile') = Len(m_to_compile) + 1
              /\ SubSeq(m_to_compile', 1, Len(m_to_compile)) = m_to_compile
              /\ back(m_to_compile').path = fc_path
              /\ back(m_to_compile').resource = NullRes
              /\ m_semaphore' = m_semaphore + 1
              /\ m_compiled' = m_compiled
        /\ (fc_pc # "fc_emplace") =>
              UNCHANGED <<m_to_compile, m_compiled, m_semaphore>>
      ]_vars

(***************************************************************************)
(* C5  Every read or modification of m_to_compile is made by a thread that *)
(* holds m_to_compile_mutex, so no two threads access it at once.          *)
(* Refuted: the destructor emplaces its entry without taking the lock.     *)
(***************************************************************************)
\* the threads that are reading or modifying m_to_compile
Accessing ==
    (IF task_pc = "take" THEN {"worker"} ELSE {})
    \cup (IF fc_pc = "fc_emplace" THEN {"watcher"} ELSE {})
    \cup (IF main_pc \in {"bl_emplace", "dtor_write"} THEN {"main"} ELSE {})

C5_QueueGuarded ==
    /\ \A t \in Accessing : m_to_compile_mutex = t
    /\ Cardinality(Accessing) <= 1

(***************************************************************************)
(* C6  Compilation is done in the background: only the worker runs a       *)
(* plugin's compile, and while it does it holds none of the three spin     *)
(* locks, so onBeforeLoad, onFileChanged and update never wait for it.     *)
(***************************************************************************)
C6_BackgroundCompile ==
    /\ plugin_caller \in {"none", "worker"}
    /\ plugin_caller = "worker" <=> task_pc = "plugin"
    /\ task_pc = "plugin" =>
          /\ m_to_compile_mutex # "worker"
          /\ m_compiled_mutex # "worker"
          /\ m_plugin_mutex # "worker"

C6_Witness ==
    /\ task_pc = "plugin"
    /\ main_pc = "bl_emplace"
    /\ m_to_compile_mutex = "main"

(***************************************************************************)
(* C7  Shutdown terminates the worker: once the destructor has set         *)
(* m_finished, emplaced its entry and signalled, the worker task returns,  *)
(* wherever it was and however many entries are pending.                   *)
(***************************************************************************)
C7_ShutdownTerminatesWorker ==
    (main_pc = "dtor_destroy") ~> (task_pc = "returned")

C7_Witness ==
    /\ main_pc = "dtor_destroy"
    /\ task_pc = "returned"
    /\ Len(m_to_compile) > 1

(***************************************************************************)
(* C8  The worker takes the entries out of m_to_compile in the order in    *)
(* which they were put in (first in, first out).                           *)
(* Refuted: the worker takes back(), the entry put in last.                *)
(***************************************************************************)
C8_FirstInFirstOut ==
    [][(task_pc = "take" /\ task_pc' # task_pc /\ m_to_compile # << >>) =>
          /\ task_e' = Head(m_to_compile)
          /\ m_to_compile' = Tail(m_to_compile)
      ]_vars

(***************************************************************************)
(* C9  compile(src) returns false without calling a plugin when no plugin  *)
(* is registered for the extension of src, and otherwise calls compile     *)
(* once on the plugin registered for it and returns its result; after      *)
(* addPlugin(p, exts) every extension of exts that was not registered      *)
(* before is dispatched to p.                                              *)
(* Refuted: an extension of 16 characters is registered under the crc32 of *)
(* all its characters and looked up under the crc32 of its first 15.       *)
(***************************************************************************)
\* the plugin that compile finds in map for a path with extension ext
Dispatch(map, ext) ==
    LET key == crc32(copyString(ExtBufferSize, ext))
    IN  IF key \in DOMAIN map THEN map[key] ELSE NoPlugin

C9_CompileDispatch ==
    [][/\ (task_pc = "cmp_find" /\ task_pc' # task_pc) =>
            LET ext == Extension(CompileSrc(task_e))
            IN  IF ext \notin registered
                THEN /\ cmp_ret' = "false"
                     /\ plugin_caller' = "none"
                     /\ task_pc' = "push_lock"
                ELSE /\ task_pc' = "plugin"
                     /\ plugin_caller' = "worker"
                     /\ cmp_plugin' = m_plugins[crc32(ext)]
       /\ (task_pc = "plugin" /\ task_pc' # task_pc) =>
            /\ cmp_ret' \in {"true", "false"}
            /\ task_pc' = "push_lock"
       /\ (main_pc = "ap_insert" /\ main_pc' # main_pc) =>
            LET ext == ap_exts[ap_i][1]
            IN  ext \notin registered => Dispatch(m_plugins', ext) = ap_plugin
      ]_vars

(***************************************************************************)
(* C10  The queue is bounded: there is a fixed capacity that the number of *)
(* entries pending in m_to_compile never exceeds.                          *)
(* Refuted: m_to_compile is an Array that grows; whatever capacity is      *)
(* proposed below the bound of the exploration, the producers exceed it.   *)
(* Amended: m_to_compile has no capacity of its own; every accepted file   *)
(* change and every intercepted load appends one entry, however many       *)
(* entries are pending.                                                    *)
(***************************************************************************)
QueueCapacity == MaxInFlight - 1

C10_BoundedQueue == Len(m_to_compile) <= QueueCapacity

C10_QueueGrows ==
    [][(\/ (fc_pc = "fc_emplace" /\ fc_pc' # fc_pc)
        \/ (main_pc = "bl_emplace" /\ main_pc' # main_pc)) =>
          /\ Len(m_to_compile') = Len(m_to_compile) + 1
          /\ SubSeq(m_to_compile', 1, Len(m_to_compile)) = m_to_compile
      ]_vars

C10_Witness ==
    /\ Len(m_to_compile) = MaxInFlight
    /\ \A i \in 1..Len(m_to_compile) : m_to_compile[i].id \in live
    /\ ~Destroying

(***************************************************************************)
(* C11  Universe free-slot recycling: no two live entities share an index; *)
(* m_positions and m_rotations always have the same length; the index of   *)
(* an entity that destroyEntity destroys is recorded in m_free_slots; and  *)
(* createEntity hands out a recorded index, taking it off m_free_slots,    *)
(* before it grows the arrays: they grow only when m_free_slots is empty.  *)
(* (destroyEntity is called on entities that are live.)                    *)
(***************************************************************************)
\* the indices recorded in m_free_slots
FreeSlots(slots) == {slots[k] : k \in 1..Len(slots)}

AboutToPop == task_pc = "take"

C12_SemaphoreCountsEntries ==
    /\ m_semaphore <= Len(m_to_compile)
    /\ AboutToPop => m_to_compile # << >>
    /\ task_pc # "undefined"

(***************************************************************************)
(* C13  No request is lost or duplicated: in every reachable state the     *)
(* requests enqueued by onFileChanged and onBeforeLoad and not yet         *)
(* delivered are as many as the entries in m_to_compile, plus the one the  *)
(* worker holds, plus those in m_compiled (the entry update() has popped   *)
(* and is delivering is counted with them), each request being in exactly  *)
(* one of these places; so continueLoad reaches a resource only while its  *)
(* load is deferred, and a reload is made only for a request not yet       *)
(* delivered.                                                              *)
(* Refuted: the destructor's unlocked emplace overwrites the entry that a  *)
(* concurrent onFileChanged appended, or brings back the entry that the    *)
(* worker has popped meanwhile.                                            *)
(***************************************************************************)
\* how many entries of array were made for request id
CountIn(array, id) == Cardinality({k \in 1..Len(array) : array[k].id = id})

\* in how many places request id is held
Holders(id) ==
    CountIn(m_to_compile, id) + CountIn(<<task_e>>, id)
    + CountIn(m_compiled, id) + CountIn(<<upd_e>>, id)

\* the entries of array that were made for a request
Requests(array) == Cardinality({k \in 1..Len(array) : array[k].id # 0})

C13_NoRequestLostOrDuplicated ==
    /\ Cardinality(live) =
          Requests(m_to_compile) + Requests(<<task_e>>)
          + Requests(m_compiled) + Requests(<<upd_e>>)
    /\ \A id \in Ids : Holders(id) = IF id \in live THEN 1 ELSE 0
    /\ (main_pc = "upd_deliver" /\ Delivery(upd_e) # "break") =>
          upd_e.id \in live
    /\ (main_pc = "upd_deliver" /\ Delivery(upd_e) = "continueLoad") =>
          res_state[upd_e.resource] = "deferred"

(***************************************************************************)
(* C14  update() delivers by kind of request: for an entry that came from  *)
(* onBeforeLoad(resource) it calls continueLoad on that resource and makes *)
(* no reload; for an entry that came from onFileChanged(path) it calls     *)
(* reload of that path and no continueLoad; it calls continueLoad only on  *)
(* a resource whose load onBeforeLoad deferred by returning true; and no   *)
(* other step makes either call.                                           *)
(***************************************************************************)
C14_DeliveryByKind ==
    [][IF main_pc = "upd_deliver" /\ main_pc' # main_pc
       THEN LET o == origin[upd_e.id]
            IN  /\ o.kind = "load" =>
                      /\ upd_e.resource # NullRes
                      /\ rm_call' = <<"continueLoad", o.resource>>
                /\ o.kind = "file" =>
                      /\ upd_e.resource = NullRes /\ isValid(upd_e.path)
                      /\ rm_call' = <<"reload", o.path>>
                /\ o.kind = "none" => rm_call' = NoCall
                /\ rm_call'[1] = "continueLoad" =>
                      res_state[rm_call'[2]] = "deferred"
       ELSE rm_call' \in {rm_call, NoCall}
      ]_vars

\* update() has continued a load while a file change waits in m_compiled
C14_Witness ==
    /\ rm_call[1] = "continueLoad"
    /\ \E k \in 1..Len(m_compiled) : origin[m_compiled[k].id].kind = "file"

(***************************************************************************)
(* C15  A failed compile does not block the load: when compile returns     *)
(* false (no plugin for the extension, or the plugin failed) the worker    *)
(* pushes the entry to m_compiled as it does when compile returns true,    *)
(* and update() makes the continueLoad or the reload of every request      *)
(* whose entry it pops, whatever compile returned for it.                  *)
(***************************************************************************)
\* the call update() makes for a request of origin o
CallFor(o) ==
    IF o.kind = "load" THEN <<"continueLoad", o.resource>>
    ELSE IF o.kind = "file" THEN <<"reload", o.path>>
    ELSE NoCall

C15_FailedCompileDelivered ==
    [][/\ (task_pc \in {"cmp_find", "plugin"} /\ task_pc' # task_pc
           /\ cmp_ret' = "false") =>
             task_pc' = "push_lock" /\ task_e'.id = task_e.id
       /\ (task_pc = "push_lock" /\ task_pc' # task_pc) =>
             task_pc' = "push" /\ task_e' = task_e
       /\ (task_pc = "push" /\ task_pc' # task_pc) =>
             m_compiled' = Append(m_compiled, task_e)
       /\ (main_pc = "upd_deliver" /\ main_pc' # main_pc
           /\ upd_e.id \in live) =>
             /\ rm_call' = CallFor(origin[upd_e.id])
             /\ rm_call' # NoCall
             /\ upd_e.resource # NullRes =>
                   res_state'[upd_e.resource] = "idle"
      ]_vars

\* no plugin was ever added, so that every compile returned false, and
\* update() has continued the load of a resource all the same
C15_Witness ==
    /\ registered = {}
    /\ rm_call[1] = "continueLoad"
    /\ res_state[rm_call[2]] = "idle"

(***************************************************************************)
(* C16  Effect of onBeforeLoad(res): it returns true if and only if it has *)
(* appended exactly one entry, carrying res, to m_to_compile and signalled *)
(* the semaphore exactly once; its other steps, and so a call that returns *)
(* false, leave m_to_compile, m_compiled and the semaphore unchanged.      *)
(***************************************************************************)
\* the main thread takes a step of onBeforeLoad
onBeforeLoadStep ==
    /\ main_pc' # main_pc
    /\ \/ main_pc = "idle" /\ main_pc' \in {"bl_lock", "bl_return"}
       \/ main_pc \in {"bl_lock", "bl_emplace", "bl_return"}

C16_LoadFrameEffect ==
    [][onBeforeLoadStep =>
        /\ m_compiled' = m_compiled
        /\ IF main_pc = "bl_emplace"
           THEN /\ Len(m_to_compile') = Len(m_to_compile) + 1
                /\ SubSeq(m_to_compile', 1, Len(m_to_compile)) = m_to_compile
                /\ back(m_to_compile').resource = bl_res
                /\ m_semaphore' = m_semaphore + 1
                /\ bl_ret' = "true"
           ELSE /\ UNCHANGED <<m_to_compile, m_semaphore>>
                /\ bl_ret' # bl_ret => bl_ret' \in {"false", "none"}
        /\ main_pc' = "bl_return" => bl_ret' \in {"true", "false"}
        /\ (main_pc = "idle" /\ main_pc' = "bl_return") => bl_ret' = "false"
      ]_vars

\* onBeforeLoad is returning true while another request waits below its entry
C16_Witness ==
    /\ main_pc = "bl_return"
    /\ bl_ret = "true"
    /\ Len(m_to_compile) = 2
    /\ back(m_to_compile).resource = bl_res
    /\ m_semaphore = 2

(***************************************************************************)
(* C17  No thread ever holds more than one of m_to_compile_mutex,          *)
(* m_compiled_mutex and m_plugin_mutex, and a thread that waits for one of *)
(* them holds none; so the threads cannot deadlock on the spin locks: the  *)
(* holder of a lock another thread waits for is itself not waiting and     *)
(* releases the lock with its next step.                                   *)
(***************************************************************************)
Threads == {"main", "watcher", "worker"}

\* the mutexes thread t holds
Held(t) ==
    (IF m_to_compile_mutex = t THEN {"m_to_compile_mutex"} ELSE {})
    \cup (IF m_compiled_mutex = t THEN {"m_compiled_mutex"} ELSE {})
    \cup (IF m_plugin_mutex = t THEN {"m_plugin_mutex"} ELSE {})

\* the position of thread t
PcOf(t) == IF t = "main" THEN main_pc
           ELSE IF t = "watcher" THEN fc_pc ELSE task_pc

\* the mutex thread t is spinning on, "none" when it is not spinning
AwaitedBy(t) ==
    LET pc == PcOf(t)
    IN  IF pc \in {"lock", "fc_lock", "bl_lock"} THEN "m_to_compile_mutex"
        ELSE IF pc \in {"push_lock", "upd_lock"} THEN "m_compiled_mutex"
        ELSE IF pc \in {"cmp_lock", "fc_plugin_lock", "ap_lock"}
             THEN "m_plugin_mutex"
        ELSE "none"

C17_OneLockAtATime ==
    /\ {m_to_compile_mutex, m_compiled_mutex, m_plugin_mutex}
          \subseteq Threads \cup {"free"}
    /\ \A t \in Threads :
          /\ Cardinality(Held(t)) <= 1
          /\ AwaitedBy(t) # "none" => Held(t) = {}
          /\ \A u \in Threads :
                (AwaitedBy(t) \in Held(u)) => AwaitedBy(u) = "none"

\* the three mutexes are held at once, by three threads
C17_Witness ==
    /\ m_plugin_mutex = "main"
    /\ m_to_compile_mutex = "watcher"
    /\ m_compiled_mutex = "worker"

=============================================================================
